---- MODULE Spec2Model ----
(***************************************************************************)
(* Model of the structured-chat pipeline of src/ollama-middleware.js:      *)
(* validateAgainstSchema, extractJsonFromText, generateJsonFromText,       *)
(* createMinimalValidObject and the POST /api/structured-chat handler.     *)
(*                                                                         *)
(* A text is a sequence of tokens separated by white space.  "F" is a ```  *)
(* fence (with its optional json tag), "w" a word of prose, and the other  *)
(* tokens are JSON documents: "{}", "{a}" for {"a": 1}, "5" and "null".    *)
(***************************************************************************)
EXTENDS Naturals, Sequences, FiniteSets, TLC

\* Longest model output, in tokens.
MaxLen == 3

\* Property names a schema, a document or a filter can mention.
Keys == {"a"}

ObjectDocs == {"{}", "{a}"}

Docs == ObjectDocs \cup {"5", "null"}

Tokens == {"F", "w"} \cup Docs

RECURSIVE SeqsUpTo(_, _)
SeqsUpTo(S, n) ==
  IF n = 0 THEN {<<>>}
  ELSE LET shorter == SeqsUpTo(S, n - 1)
       IN  shorter \cup {Append(s, x) : s \in {t \in shorter : Len(t) = n - 1}, x \in S}

Texts == SeqsUpTo(Tokens, MaxLen)

(***************************************************************************)
(* JavaScript values.  kind is the runtime type the validator tells apart, *)
(* lit the literal of a primitive, obj the own properties among Keys       *)
(* ("absent" when the key is not an own property), raw the text of a       *)
(* string that is unparsed model output.  A member's value is kept as its  *)
(* runtime type only.                                                      *)
(***************************************************************************)
MemberVals == {"num", "str", "bool", "arr", "obj", "null"}

NoKeys == [k \in Keys |-> "absent"]

JsNull == [kind |-> "null", lit |-> "null", obj |-> NoKeys, raw |-> <<>>]

JsNumber(l) == [kind |-> "number", lit |-> l, obj |-> NoKeys, raw |-> <<>>]

JsArray == [kind |-> "array", lit |-> "[]", obj |-> NoKeys, raw |-> <<>>]

JsObject(o) == [kind |-> "object", lit |-> "{}", obj |-> o, raw |-> <<>>]

\* The model output itself, a JavaScript string.
JsText(t) == [kind |-> "string", lit |-> "text", obj |-> NoKeys, raw |-> t]

\* undefined: what a variable holds before it is assigned.
JsUndefined == [kind |-> "undefined", lit |-> "undefined", obj |-> NoKeys, raw |-> <<>>]

\* The operand of `in` and the argument of Object.entries must not be
\* null; `in` moreover rejects every primitive with a TypeError.
IsObjectLike(v) == v.kind \in {"object", "array"}

\* JavaScript truthiness of a value (the guard `result &&`).
Truthy(v) ==
  CASE v.kind \in {"object", "array"} -> TRUE
    [] v.kind = "number"  -> v.lit # "0"
    [] v.kind = "string"  -> v.lit # "empty"
    [] v.kind = "boolean" -> v.lit = "true"
    [] OTHER -> FALSE

(***************************************************************************)
(* JSON.parse on a text: exactly one document, nothing before or after.    *)
(***************************************************************************)
CanParse(s) == Len(s) = 1 /\ s[1] \in Docs

JsonParse(s) ==
  CASE s[1] = "{}"  -> JsObject(NoKeys)
    [] s[1] = "{a}" -> JsObject([k \in Keys |-> IF k = "a" THEN "num" ELSE "absent"])
    [] s[1] = "5"   -> JsNumber("5")
    [] OTHER        -> JsNull

(***************************************************************************)
(* text.match(/```(?:json)?\n?([\s\S]*?)\n?```/): the first fence and the  *)
(* next one after it; group 1 is what lies between them.                   *)
(***************************************************************************)
FenceAt(t) == {i \in 1..Len(t) : t[i] = "F"}

Least(S) == CHOOSE i \in S : \A j \in S : i <= j

Greatest(S) == CHOOSE i \in S : \A j \in S : j <= i

codeBlockMatches(t) == Cardinality(FenceAt(t)) >= 2

codeBlockOpen(t) == Least(FenceAt(t))

codeBlockClose(t) == Least(FenceAt(t) \ {codeBlockOpen(t)})

\* codeBlockMatch[1]
codeBlockGroup(t) == SubSeq(t, codeBlockOpen(t) + 1, codeBlockClose(t) - 1)

\* codeBlockMatch[0]
codeBlockWhole(t) == SubSeq(t, codeBlockOpen(t), codeBlockClose(t))

(***************************************************************************)
(* text.match(/\{[\s\S]*\}/): from the first "{" to the last "}".          *)
(***************************************************************************)
\* an object document opens with "{" and closes with "}"
BraceAt(t) == {i \in 1..Len(t) : t[i] \in ObjectDocs}

jsonLikeMatches(t) == BraceAt(t) # {}

\* jsonLikeMatch[0]
jsonLikeWhole(t) == SubSeq(t, Least(BraceAt(t)), Greatest(BraceAt(t)))

(***************************************************************************)
(* Schemas.  given is FALSE for a request without response_format.schema;  *)
(* hasProps tells whether schema.properties exists; a property sub-schema  *)
(* has a declared type ("none" when it declares none) and a description    *)
(* ("none", a text, or a number put where a text belongs).                 *)
(***************************************************************************)
Types == {"string", "number", "integer", "boolean", "array", "object", "none"}

Descs == {"none", "text", "num"}

NoProp == [present |-> FALSE, type |-> "none", desc |-> "none"]

PropSchemas ==
  {[present |-> TRUE, type |-> ty, desc |-> d] : ty \in Types, d \in Descs}

\* description is read for a string property only
DistinctPropSchemas == {p \in PropSchemas : p.type # "string" => p.desc = "none"}

NoProps == [k \in Keys |-> NoProp]

NoSchema == [given |-> FALSE, hasProps |-> FALSE, props |-> NoProps, required |-> {}]

Schemas ==
  {[given |-> TRUE, hasProps |-> FALSE, props |-> NoProps, required |-> r] :
      r \in SUBSET Keys}
  \cup
  {[given |-> TRUE, hasProps |-> TRUE, props |-> p, required |-> r] :
      p \in [Keys -> DistinctPropSchemas \cup {NoProp}], r \in SUBSET Keys}

(***************************************************************************)
(* validateAgainstSchema(data, schema)                                     *)
(***************************************************************************)
\* `prop in data` raises a TypeError when data is not an object
RequiredLoopThrows(data, schema) == schema.required # {} /\ ~IsObjectLike(data)

\* Object.entries(data) raises a TypeError on null and undefined
EntriesThrows(data) == data.kind \in {"null", "undefined"}

TypeMismatch(type, value) ==
  \/ type = "number"  /\ value # "num"
  \/ type = "string"  /\ value # "str"
  \/ type = "boolean" /\ value # "bool"
  \/ type = "array"   /\ value # "arr"
  \/ type = "object"  /\ value # "obj"

RequiredPresent(data, schema) == \A prop \in schema.required : data.obj[prop] # "absent"

\* a slip: the declared types are not compared with the values
TypesUnchecked(data, schema) == TRUE

TypesAgree(data, schema) ==
  \A prop \in Keys :
     (/\ data.obj[prop] # "absent"
      /\ schema.hasProps
      /\ schema.props[prop].present
      /\ schema.props[prop].type # "none")
     => ~TypeMismatch(schema.props[prop].type, data.obj[prop])

validateAgainstSchema(data, schema) ==
  IF RequiredLoopThrows(data, schema) THEN FALSE
  ELSE IF ~RequiredPresent(data, schema) THEN FALSE
  ELSE IF EntriesThrows(data) THEN FALSE
  ELSE TypesAgree(data, schema)

(***************************************************************************)
(* createMinimalValidObject(schema)                                        *)
(***************************************************************************)
\* { error: "No se pudo generar JSON válido de la respuesta" }
ErrorObject == [kind |-> "object", lit |-> "{error}", obj |-> NoKeys, raw |-> <<>>]

MinimalValue(propSchema) ==
  CASE propSchema.type = "string" ->
         IF propSchema.desc = "num" THEN "num" ELSE "str"
    [] propSchema.type \in {"number", "integer"} -> "num"
    [] propSchema.type = "boolean" -> "bool"
    [] propSchema.type = "array" -> "arr"
    [] propSchema.type = "object" -> "obj"
    [] OTHER -> "null"

createMinimalValidObject(schema) ==
  IF ~schema.given \/ ~schema.hasProps THEN ErrorObject
  ELSE JsObject([propName \in Keys |->
         IF propName \in schema.required /\ schema.props[propName].present
         THEN MinimalValue(schema.props[propName])
         ELSE "absent"])

(***************************************************************************)
(* extractJsonFromText(text, schema), up to its await: the three local     *)
(* strategies.  tried lists the strategies in the order they ran.          *)
(***************************************************************************)
directOk(t) == CanParse(t)

codeBlockOk(t) == codeBlockMatches(t) /\ CanParse(codeBlockGroup(t))

jsonLikeOk(t) == jsonLikeMatches(t) /\ CanParse(jsonLikeWhole(t))

\* a slip in the order: the brace span is tried before the fenced block
extractJsonBraceFirst(t) ==
  IF directOk(t)
  THEN [ok |-> TRUE, val |-> JsonParse(t), tried |-> <<"direct">>]
  ELSE IF jsonLikeOk(t)
  THEN [ok |-> TRUE, val |-> JsonParse(jsonLikeWhole(t)),
        tried |-> <<"direct", "brace">>]
  ELSE IF codeBlockOk(t)
  THEN [ok |-> TRUE, val |-> JsonParse(codeBlockGroup(t)),
        tried |-> <<"direct", "brace", "fenced">>]
  ELSE [ok |-> FALSE, val |-> JsUndefined,
        tried |-> <<"direct", "brace", "fenced">>]

extractJsonFromText(t) ==
  IF directOk(t)
  THEN [ok |-> TRUE, val |-> JsonParse(t), tried |-> <<"direct">>]
  ELSE IF codeBlockOk(t)
  THEN [ok |-> TRUE, val |-> JsonParse(codeBlockGroup(t)),
        tried |-> <<"direct", "fenced">>]
  ELSE IF jsonLikeOk(t)
  THEN [ok |-> TRUE, val |-> JsonParse(jsonLikeWhole(t)),
        tried |-> <<"direct", "fenced", "brace">>]
  ELSE [ok |-> FALSE, val |-> JsUndefined,
        tried |-> <<"direct", "fenced", "brace">>]

(***************************************************************************)
(* What a call to the completion service can come back with: the request   *)
(* rejected (unreachable, timeout, non-2xx), a 2xx body without message,   *)
(* a message without content, or a message with a content text.            *)
(***************************************************************************)
Outcomes ==
  {[kind |-> k, text |-> <<>>] : k \in {"rejected", "nomessage", "nocontent"}}
  \cup {[kind |-> "content", text |-> t] : t \in Texts}

(***************************************************************************)
(* generateJsonFromText(text, schema), from the return of its await.       *)
(***************************************************************************)
\* jsonMatch[1] || jsonMatch[0], of the fence match or else the brace match
jsonStr(t) ==
  IF codeBlockMatches(t)
  THEN IF codeBlockGroup(t) # <<>> THEN codeBlockGroup(t) ELSE codeBlockWhole(t)
  ELSE jsonLikeWhole(t)

\* the try block raises: the call, the read of message.content, or JSON.parse
generateThrows(outcome) ==
  \/ outcome.kind # "content"
  \/ LET t == outcome.text
     IN  IF codeBlockMatches(t) \/ jsonLikeMatches(t)
         THEN ~CanParse(jsonStr(t))
         ELSE ~CanParse(t)

\* whether generateJsonFromText returns from its try block or from its catch
madeBy(outcome) == IF generateThrows(outcome) THEN "synthesized" ELSE "generated"

\* a slip: the call and the read of message.content left outside the try
generateJsonUncaught(outcome, schema) ==
  IF outcome.kind # "content" THEN JsUndefined
  ELSE IF generateThrows(outcome) THEN createMinimalValidObject(schema)
  ELSE LET t == outcome.text
       IN  IF codeBlockMatches(t) \/ jsonLikeMatches(t)
           THEN JsonParse(jsonStr(t))
           ELSE JsonParse(t)

generateJsonFromText(outcome, schema) ==
  IF generateThrows(outcome) THEN createMinimalValidObject(schema)
  ELSE LET t == outcome.text
       IN  IF codeBlockMatches(t) \/ jsonLikeMatches(t)
           THEN JsonParse(jsonStr(t))
           ELSE JsonParse(t)

(***************************************************************************)
(* The transforms of a request: the filter loop of the handler.            *)
(***************************************************************************)
Filter(fields) == [type |-> "filter", hasFields |-> TRUE, fields |-> fields]

\* a filter without fields, and a transform of a type the handler ignores
FilterNoFields == [type |-> "filter", hasFields |-> FALSE, fields |-> {}]

Rename == [type |-> "rename", hasFields |-> TRUE, fields |-> Keys]

\* `field in result` raises a TypeError when result is a truthy primitive
filterThrows(result, transform) ==
  /\ transform.type = "filter" /\ transform.hasFields
  /\ transform.fields # {}
  /\ Truthy(result)
  /\ ~IsObjectLike(result)

filteredResult(result, transform) ==
  IF transform.type = "filter" /\ transform.hasFields
  THEN JsObject([field \in Keys |->
         IF field \in transform.fields /\ IsObjectLike(result)
         THEN result.obj[field]
         ELSE "absent"])
  ELSE result

RECURSIVE applyTransforms(_, _)
applyTransforms(result, transforms) ==
  IF transforms = <<>> THEN [threw |-> FALSE, result |-> result]
  ELSE IF filterThrows(result, Head(transforms))
  THEN [threw |-> TRUE, result |-> result]
  ELSE applyTransforms(filteredResult(result, Head(transforms)), Tail(transforms))

(***************************************************************************)
(* Messages.  A content is the sequence of its parts; "INSTR" is the text  *)
(* createJsonFormatSystemPrompt builds from the schema and "\n\n" the      *)
(* blank line the handler puts before it.                                  *)
(***************************************************************************)
Roles == {"system", "user", "assistant"}

Message(role, content) == [role |-> role, content |-> content]

createJsonFormatSystemPrompt(schema) == <<"INSTR">>

hasSystemMessage(messages) == \E i \in 1..Len(messages) : messages[i].role = "system"

\* a slip: only the first system message gets the instruction
augmentsFirstSystemOnly(messages, schema) ==
  IF hasSystemMessage(messages)
  THEN LET first == CHOOSE i \in 1..Len(messages) :
                      /\ messages[i].role = "system"
                      /\ \A j \in 1..(i - 1) : messages[j].role # "system"
       IN  [messages EXCEPT ![first] =
              Message("system",
                messages[first].content \o <<"\n\n">> \o createJsonFormatSystemPrompt(schema))]
  ELSE <<Message("system", createJsonFormatSystemPrompt(schema))>> \o messages

\* modifiedMessages when a schema is requested
augmentedMessages(messages, schema) ==
  IF hasSystemMessage(messages)
  THEN [i \in 1..Len(messages) |->
          IF messages[i].role = "system"
          THEN Message("system",
                 messages[i].content \o <<"\n\n">> \o createJsonFormatSystemPrompt(schema))
          ELSE messages[i]]
  ELSE <<Message("system", createJsonFormatSystemPrompt(schema))>> \o messages

\* the two messages generateJsonFromText sends
generateJsonPrompt == <<Message("system", <<"TRANSFORM">>), Message("user", <<"CONVERT">>)>>

(***************************************************************************)
(* Requests.  model tells whether req.body.model is truthy; messages.is    *)
(* tells whether req.body.messages is missing, something that is not an    *)
(* array, or an array; format.type is "absent" without response_format.    *)
(***************************************************************************)
MessageLists ==
  { [is |-> "missing", list |-> <<>>],
    [is |-> "notarray", list |-> <<>>],
    [is |-> "array", list |-> <<>>],
    [is |-> "array", list |-> <<Message("user", <<"hi">>)>>],
    [is |-> "array", list |-> <<Message("system", <<"be brief">>), Message("user", <<"hi">>)>>],
    [is |-> "array", list |-> <<Message("user", <<"hi">>), Message("system", <<"be brief">>),
                                Message("assistant", <<"ok">>), Message("system", <<"be kind">>)>>] }

Formats ==
  {[type |-> ty, schema |-> NoSchema] : ty \in {"absent", "text", "json_schema"}}
  \cup {[type |-> "json_schema", schema |-> sc] : sc \in Schemas}

TransformLists ==
  { [given |-> FALSE, list |-> <<>>],
    [given |-> TRUE, list |-> <<Filter(Keys)>>],
    [given |-> TRUE, list |-> <<Rename, FilterNoFields, Filter({})>>] }

UserOnly == [is |-> "array", list |-> <<Message("user", <<"hi">>)>>]

\* every format and transform list under one conversation, and every
\* message list (and a missing model) under the formats without transforms
Requests ==
  {r \in [model : BOOLEAN, messages : MessageLists, format : Formats,
          transforms : TransformLists] :
     \/ r.model /\ r.messages = UserOnly
     \/ ~r.transforms.given /\ r.format.schema.required = {}
                            /\ ~r.format.schema.hasProps}

VARIABLES
  req,          \* req.body
  pc,           \* where the handler stands: received, chat (the await of line
                \* 284), extract (the await of line 159 reached from line 128),
                \* fix (the same await reached from line 302), done
  reply,        \* what the awaited call came back with, until the handler resumes
  result,       \* the handler's variable result, once it holds what is sent
  parsedJson,   \* what extractJsonFromText returned
  tried,        \* the strategies extractJsonFromText ran, in order
  made,         \* how the latest JSON value was made: direct, fenced, brace,
                \* generated (parsed from a regeneration) or synthesized
  calls,        \* the requests posted to the completion service, in order
  responses     \* the responses sent to the caller, in order

vars == <<req, pc, reply, result, parsedJson, tried, made, calls, responses>>

\* no reply yet: the call is in flight
Pending == [kind |-> "pending", text |-> <<>>]

Init ==
  /\ req \in Requests
  /\ pc = "received"
  /\ reply = Pending
  /\ result = JsUndefined
  /\ parsedJson = JsUndefined
  /\ tried = <<>>
  /\ made = "nothing"
  /\ calls = <<>>
  /\ responses = <<>>

\* response_format && response_format.type === 'json_schema'
wantsJson == req.format.type = "json_schema"

schema == req.format.schema

(***************************************************************************)
(* The bodies the handler sends.                                           *)
(***************************************************************************)
BadRequest ==
  [status |-> 400, body |-> "error", result |-> JsUndefined, warning |-> FALSE,
   latency |-> FALSE, originalResponse |-> JsUndefined]

InvalidUpstream ==
  [status |-> 500, body |-> "error", result |-> JsUndefined, warning |-> FALSE,
   latency |-> FALSE, originalResponse |-> JsUndefined]

ServerError ==
  [status |-> 500, body |-> "error", result |-> JsUndefined, warning |-> FALSE,
   latency |-> TRUE, originalResponse |-> JsUndefined]

ParseFailed(text) ==
  [status |-> 400, body |-> "error", result |-> JsUndefined, warning |-> FALSE,
   latency |-> TRUE, originalResponse |-> text]

Success(r) ==
  [status |-> 200, body |-> "result", result |-> r, warning |-> FALSE,
   latency |-> TRUE, originalResponse |-> JsUndefined]

FallbackWarning(r) ==
  [status |-> 200, body |-> "result", result |-> r, warning |-> TRUE,
   latency |-> TRUE, originalResponse |-> JsUndefined]

Send(response) == responses' = Append(responses, response)

Post(purpose, messages) ==
  calls' = Append(calls, [purpose |-> purpose, messages |-> messages])

(***************************************************************************)
(* POST /api/structured-chat.  The handler runs from one await to the      *)
(* next: the completion service replies (CompletionReplies), and the       *)
(* handler resumes with that reply and runs to its next await or to its    *)
(* response.                                                               *)
(***************************************************************************)
\* a slip: the instruction is added whatever the response_format
modifiedAlways == augmentedMessages(req.messages.list, schema)

\* lines 243-268
modifiedMessages ==
  IF wantsJson /\ schema.given
  THEN augmentedMessages(req.messages.list, schema)
  ELSE req.messages.list

\* lines 331-354, and the outer catch when a transform raises
Deliver(r) ==
  LET out == IF req.transforms.given
             THEN applyTransforms(r, req.transforms.list)
             ELSE [threw |-> FALSE, result |-> r]
  IN  /\ result' = out.result
      /\ Send(IF out.threw THEN ServerError ELSE Success(out.result))
      /\ pc' = "done"
      /\ UNCHANGED calls

\* a slip: the parsed document is kept without validation
AfterExtractKeeps(json) == Deliver(json)

\* lines 299-305: validate json, then regenerate or keep json
AfterExtract(json) ==
  IF schema.given /\ ~validateAgainstSchema(json, schema)
  THEN /\ Post("transform", generateJsonPrompt)
       /\ pc' = "fix"
       /\ UNCHANGED <<result, responses>>
  ELSE Deliver(json)

\* a slip: the 400 response leaves the model text out
CatchWithoutEcho(text) ==
  /\ IF schema.given
     THEN /\ result' = createMinimalValidObject(schema)
          /\ Send(FallbackWarning(createMinimalValidObject(schema)))
     ELSE /\ result' = text
          /\ Send(ParseFailed(JsUndefined))
  /\ pc' = "done"
  /\ UNCHANGED calls

\* a slip: the 400 branch does not return, and the handler responds again
CatchFallsThrough(text) ==
  /\ IF schema.given
     THEN /\ result' = createMinimalValidObject(schema)
          /\ Send(FallbackWarning(createMinimalValidObject(schema)))
     ELSE /\ result' = text
          /\ responses' = Append(Append(responses, ParseFailed(text)), Success(text))
  /\ pc' = "done"
  /\ UNCHANGED calls

\* lines 306-327: extractJsonFromText raised
CatchJsonError(text) ==
  /\ IF schema.given
     THEN /\ result' = createMinimalValidObject(schema)
          /\ Send(FallbackWarning(createMinimalValidObject(schema)))
     ELSE /\ result' = text
          /\ Send(ParseFailed(text))
  /\ pc' = "done"
  /\ UNCHANGED calls

\* a slip: the check of messages.length left out
HandleRequestAnyLength ==
  /\ pc = "received"
  /\ IF ~req.model \/ req.messages.is # "array"
     THEN /\ Send(BadRequest)
          /\ pc' = "done"
          /\ UNCHANGED calls
     ELSE /\ Post("chat", modifiedMessages)
          /\ pc' = "chat"
          /\ UNCHANGED responses
  /\ UNCHANGED <<req, reply, result, parsedJson, tried, made>>

\* lines 232-284: check the request, augment, post the chat
HandleRequest ==
  /\ pc = "received"
  /\ IF ~req.model \/ req.messages.is # "array" \/ req.messages.list = <<>>
     THEN /\ Send(BadRequest)
          /\ pc' = "done"
          /\ UNCHANGED calls
     ELSE /\ Post("chat", modifiedMessages)
          /\ pc' = "chat"
          /\ UNCHANGED responses
  /\ UNCHANGED <<req, reply, result, parsedJson, tried, made>>

\* the completion service answers the call in flight, or the call fails
CompletionReplies ==
  /\ pc \in {"chat", "extract", "fix"}
  /\ reply = Pending
  /\ reply' \in Outcomes
  /\ UNCHANGED <<req, pc, result, parsedJson, tried, made, calls, responses>>

\* a slip: the failed chat is posted once more before giving up
ChatRejectedRetries ==
  /\ pc = "chat"
  /\ reply.kind = "rejected"
  /\ IF Len(calls) < 2
     THEN /\ Post("chat", modifiedMessages)
          /\ pc' = "chat"
          /\ UNCHANGED responses
     ELSE /\ Send(ServerError)
          /\ pc' = "done"
          /\ UNCHANGED calls
  /\ reply' = Pending
  /\ UNCHANGED <<req, result, parsedJson, tried, made>>

\* line 284 raises (unreachable, timeout, non-2xx): the outer catch
ChatRejected ==
  /\ pc = "chat"
  /\ reply.kind = "rejected"
  /\ Send(ServerError)
  /\ pc' = "done"
  /\ reply' = Pending
  /\ UNCHANGED <<req, result, parsedJson, tried, made, calls>>

\* lines 286-288: a 2xx body without message, or without (or with empty) content
ChatMalformed ==
  /\ pc = "chat"
  /\ \/ reply.kind \in {"nomessage", "nocontent"}
     \/ reply.kind = "content" /\ reply.text = <<>>
  /\ Send(InvalidUpstream)
  /\ pc' = "done"
  /\ reply' = Pending
  /\ UNCHANGED <<req, result, parsedJson, tried, made, calls>>

\* lines 290-354 on a content text, up to the next await or the response
ChatReturns ==
  /\ pc = "chat"
  /\ reply.kind = "content"
  /\ reply.text # <<>>
  /\ IF ~wantsJson
     THEN /\ Deliver(JsText(reply.text))
          /\ UNCHANGED <<parsedJson, tried, made>>
     ELSE LET e == extractJsonFromText(reply.text)
          IN  IF e.ok
              THEN /\ parsedJson' = e.val
                   /\ tried' = e.tried
                   /\ made' = e.tried[Len(e.tried)]
                   /\ AfterExtract(e.val)
              ELSE IF schema.given
              THEN /\ tried' = Append(e.tried, "regen")
                   /\ Post("transform", generateJsonPrompt)
                   /\ pc' = "extract"
                   /\ UNCHANGED <<result, parsedJson, made, responses>>
              ELSE /\ tried' = e.tried
                   /\ CatchJsonError(JsText(reply.text))
                   /\ UNCHANGED <<parsedJson, made>>
  /\ reply' = Pending
  /\ UNCHANGED req

\* the await of line 128 returns: extractJsonFromText returns, lines 299-354
GenerateInExtractReturns ==
  /\ pc = "extract"
  /\ reply # Pending
  /\ parsedJson' = generateJsonFromText(reply, schema)
  /\ made' = madeBy(reply)
  /\ AfterExtract(generateJsonFromText(reply, schema))
  /\ reply' = Pending
  /\ UNCHANGED <<req, tried>>

\* the await of line 302 returns: lines 302-354
GenerateInHandlerReturns ==
  /\ pc = "fix"
  /\ reply # Pending
  /\ Deliver(generateJsonFromText(reply, schema))
  /\ made' = madeBy(reply)
  /\ reply' = Pending
  /\ UNCHANGED <<req, parsedJson, tried>>

Next ==
  \/ HandleRequest
  \/ CompletionReplies
  \/ ChatRejected
  \/ ChatMalformed
  \/ ChatReturns
  \/ GenerateInExtractReturns
  \/ GenerateInHandlerReturns

Spec == Init /\ [][Next]_vars

\* Every call to the completion service returns or fails in the end, and
\* the handler runs on when what it awaits has settled.
FairSpec ==
  /\ Spec
  /\ WF_vars(CompletionReplies)
  /\ WF_vars(HandleRequest \/ ChatRejected \/ ChatMalformed \/ ChatReturns
                \/ GenerateInExtractReturns \/ GenerateInHandlerReturns)

(***************************************************************************)
(* Vocabulary of the properties.                                           *)
(***************************************************************************)
Done == pc = "done"

ValidRequest == req.model /\ req.messages.is = "array" /\ req.messages.list # <<>>

\* a valid request whose response_format is a json_schema with a schema
SchemaRequest == ValidRequest /\ wantsJson /\ schema.given

\* the one response of a finished request
Response == responses[1]

Succeeded == Done /\ Len(responses) = 1 /\ Response.status = 200

\* the initial completion call returned a non-empty content on the schema path
ContentReturned == tried # <<>>

TransformCalls == {i \in 1..Len(calls) : calls[i].purpose = "transform"}

JsonObjects == {JsObject(o) : o \in [Keys -> MemberVals \cup {"absent"}]} \cup {ErrorObject}

JsonValues == JsonObjects \cup {JsNull, JsNumber("5"), JsArray}

(***************************************************************************)
(* C1: on the schema path, once the initial call has returned a non-empty  *)
(* content, the request ends in a success response, never in a 4xx or 5xx. *)
(***************************************************************************)
C1_SchemaPathNeverFails ==
  (Done /\ SchemaRequest /\ ContentReturned) => Succeeded

(***************************************************************************)
(* C2: with a schema and no transforms, the result of every success        *)
(* response passes validateAgainstSchema against the schema.               *)
(***************************************************************************)
C2_ResultConforms ==
  (Succeeded /\ SchemaRequest /\ ~req.transforms.given)
     => validateAgainstSchema(Response.result, schema)

(***************************************************************************)
(* C3: with a schema, the result of every success response is a JSON       *)
(* object, never text, a number, a boolean, an array or null.              *)
(***************************************************************************)
C3_ResultIsObject ==
  (Succeeded /\ SchemaRequest) => Response.result.kind = "object"

(***************************************************************************)
(* C4: a success response on the schema path whose result was produced by  *)
(* createMinimalValidObject carries the warning field.                     *)
(***************************************************************************)
C4_FallbackCarriesWarning ==
  (Succeeded /\ SchemaRequest /\ made = "synthesized") => Response.warning

(***************************************************************************)
(* C9: a request without model, or whose messages are missing, not an      *)
(* array or empty, is answered 400 and posts nothing to the completion     *)
(* service.                                                                *)
(***************************************************************************)
C9_BadRequestWithoutCall ==
  ~ValidRequest =>
     /\ calls = <<>>
     /\ pc \in {"received", "done"}
     /\ Done => responses = <<BadRequest>>

C9_Witness ==
  /\ Done
  /\ req.model
  /\ req.messages.is = "array"
  /\ req.messages.list = <<>>
  /\ responses = <<BadRequest>>

(***************************************************************************)
(* The strategies by name, for the properties of their order.              *)
(***************************************************************************)
StrategyOrder == <<"direct", "fenced", "brace", "regen">>

StrategyWorks(strategy, t) ==
  CASE strategy = "direct" -> directOk(t)
    [] strategy = "fenced" -> codeBlockOk(t)
    [] strategy = "brace"  -> jsonLikeOk(t)
    [] OTHER -> TRUE

StrategyValue(strategy, t) ==
  CASE strategy = "direct" -> JsonParse(t)
    [] strategy = "fenced" -> JsonParse(codeBlockGroup(t))
    [] OTHER -> JsonParse(jsonLikeWhole(t))

LocalStrategiesFail(t) == ~directOk(t) /\ ~codeBlockOk(t) /\ ~jsonLikeOk(t)

\* the value of the first local strategy that works on t
FirstLocalValue(t) ==
  IF directOk(t) THEN JsonParse(t)
  ELSE IF codeBlockOk(t) THEN JsonParse(codeBlockGroup(t))
  ELSE JsonParse(jsonLikeWhole(t))

\* the handler resumes on a non-empty content of a json_schema request
ExtractRuns ==
  /\ pc = "chat"
  /\ reply.kind = "content"
  /\ reply.text # <<>>
  /\ wantsJson

(***************************************************************************)
(* C5: extractJsonFromText runs direct parse, fenced-block parse,          *)
(* brace-span parse and regeneration in that order, a strategy only when   *)
(* every earlier one failed, and returns the value of the first that       *)
(* works; it posts the regeneration call only when the three local         *)
(* strategies failed and a schema was supplied.                            *)
(***************************************************************************)
C5_StrictOrderFirstSuccess ==
  [][ExtractRuns =>
       LET t == reply.text
           n == Len(tried')
           last == tried'[n]
       IN  /\ n \in 1..4
           /\ tried' = SubSeq(StrategyOrder, 1, n)
           /\ \A i \in 1..(n - 1) : ~StrategyWorks(tried'[i], t)
           /\ (last # "regen" /\ StrategyWorks(last, t))
                 => parsedJson' = StrategyValue(last, t)
           /\ (last # "regen" /\ ~StrategyWorks(last, t))
                 => (last = "brace" /\ ~schema.given /\ parsedJson' = parsedJson)
           /\ (last = "regen") <=> (pc' = "extract")
           /\ (pc' = "extract") <=> (LocalStrategiesFail(t) /\ schema.given)
           /\ (pc' = "extract") =>
                 (Len(calls') = Len(calls) + 1 /\ calls'[Len(calls')].purpose = "transform")
    ]_vars

C5_Witness ==
  /\ tried = <<"direct", "fenced", "brace">>
  /\ made = "brace"
  /\ parsedJson.kind = "object"
  /\ SchemaRequest

NothingParses(outcome) ==
  \/ outcome.kind # "content"
  \/ /\ ~codeBlockOk(outcome.text)
     /\ ~jsonLikeOk(outcome.text)
     /\ ~CanParse(outcome.text)

\* the texts the three sub-attempts would hand to JSON.parse
Candidates(t) ==
  {t} \cup (IF codeBlockMatches(t) THEN {codeBlockGroup(t)} ELSE {})
      \cup (IF jsonLikeMatches(t) THEN {jsonLikeWhole(t)} ELSE {})

\* what some sub-attempt could parse out of the reply
Parsable(outcome) ==
  IF outcome.kind # "content" THEN {}
  ELSE {JsonParse(c) : c \in {c \in Candidates(outcome.text) : CanParse(c)}}

Regenerated(outcome, value) ==
  /\ value \in JsonValues
  /\ value \in Parsable(outcome) \cup {createMinimalValidObject(schema)}
  /\ NothingParses(outcome) => value = createMinimalValidObject(schema)

\* generateJsonFromText resumes with the reply to its call
GenerateRuns == pc \in {"extract", "fix"} /\ reply # Pending

(***************************************************************************)
(* C6: generateJsonFromText hands a JSON value back to its caller whatever *)
(* the regeneration call comes back with (rejected, no message, no         *)
(* content, unparsable or parsable content), and that value is the         *)
(* createMinimalValidObject document whenever nothing in the reply parses. *)
(***************************************************************************)
C6_RegenerateAlwaysReturns ==
  [][GenerateRuns =>
       /\ pc = "extract" =>
            /\ Regenerated(reply, parsedJson')
            /\ pc' \in {"fix", "done"}
            /\ (pc' = "done" /\ ~req.transforms.given)
                  => responses' = <<Success(parsedJson')>>
       /\ (pc = "fix" /\ ~req.transforms.given) =>
            /\ Regenerated(reply, result')
            /\ responses' = <<Success(result')>>
    ]_vars

C6_Witness ==
  /\ Succeeded
  /\ SchemaRequest
  /\ made = "synthesized"
  /\ ~req.transforms.given
  /\ Response.result = createMinimalValidObject(schema)

FirstParsingAttempt(t) ==
  IF codeBlockOk(t) THEN JsonParse(codeBlockGroup(t))
  ELSE IF jsonLikeOk(t) THEN JsonParse(jsonLikeWhole(t))
  ELSE IF CanParse(t) THEN JsonParse(t)
  ELSE createMinimalValidObject(schema)

(***************************************************************************)
(* C7: on the text of the regeneration reply, generateJsonFromText tries   *)
(* fenced-block parse, then brace-span parse, then direct parse, returns   *)
(* the first that parses, and returns the synthesized document only when   *)
(* all three fail.                                                         *)
(***************************************************************************)
C7_RegenerateTriesEachAttempt ==
  [][(GenerateRuns /\ pc = "extract" /\ reply.kind = "content")
        => parsedJson' = FirstParsingAttempt(reply.text)
    ]_vars

\* the document createMinimalValidObject made last, where the state holds it
SynthesizedDocument == IF pc = "fix" THEN parsedJson ELSE Response.result

(***************************************************************************)
(* C8: the document createMinimalValidObject makes of a schema has every   *)
(* key of the schema's required list.                                      *)
(***************************************************************************)
C8_SynthesizedHasRequiredKeys ==
  (/\ SchemaRequest
   /\ made = "synthesized"
   /\ pc = "fix" \/ (Succeeded /\ ~req.transforms.given))
     => \A prop \in schema.required : SynthesizedDocument.obj[prop] # "absent"

PostedOneMore == Len(calls') = Len(calls) + 1 /\ calls'[Len(calls')].purpose = "transform"

(***************************************************************************)
(* C10: with a schema, a regeneration call is posted exactly when the      *)
(* three local strategies all fail on the model output or the extracted    *)
(* document fails validateAgainstSchema; a model output that is valid JSON *)
(* and passes validation is returned as parsed, after one call in all.     *)
(***************************************************************************)
C10_RegenerationIffNeeded ==
  [][SchemaRequest =>
       /\ ExtractRuns =>
            LET t == reply.text
            IN  /\ IF \/ LocalStrategiesFail(t)
                      \/ ~validateAgainstSchema(FirstLocalValue(t), schema)
                   THEN PostedOneMore
                   ELSE calls' = calls
                /\ (directOk(t) /\ validateAgainstSchema(JsonParse(t), schema)) =>
                      /\ pc' = "done"
                      /\ Len(calls') = 1
                      /\ parsedJson' = JsonParse(t)
                      /\ ~req.transforms.given => responses' = <<Success(JsonParse(t))>>
       /\ (GenerateRuns /\ pc = "extract") =>
            IF ~validateAgainstSchema(parsedJson', schema)
            THEN PostedOneMore
            ELSE calls' = calls
       /\ (GenerateRuns /\ pc = "fix") => calls' = calls
    ]_vars

C10_Witness ==
  /\ Succeeded
  /\ SchemaRequest
  /\ schema.required # {}
  /\ made = "direct"
  /\ Len(calls) = 1
  /\ Response.result = parsedJson

\* the handler resumes on a failure of the initial call (line 284 raises)
InitialCallFails == pc = "chat" /\ reply.kind = "rejected"

\* the handler resumes on a 2xx reply without message content (line 286)
InitialCallMalformed ==
  /\ pc = "chat"
  /\ \/ reply.kind \in {"nomessage", "nocontent"}
     \/ reply.kind = "content" /\ reply.text = <<>>

(***************************************************************************)
(* C11: when the initial completion call fails, the request ends at once   *)
(* with a 500 response that carries latency, after exactly one call: no    *)
(* retry, no extraction and no regeneration.                               *)
(***************************************************************************)
C11_UpstreamFailureIsTerminal ==
  [][InitialCallFails =>
       /\ pc' = "done"
       /\ Len(responses') = 1
       /\ responses'[1].status = 500
       /\ responses'[1].latency
       /\ Len(calls') = 1
       /\ calls'[1].purpose = "chat"
       /\ tried' = <<>>
       /\ parsedJson' = JsUndefined
    ]_vars

C11_Witness ==
  /\ Done
  /\ ValidRequest
  /\ ~req.transforms.given
  /\ responses = <<ServerError>>
  /\ Len(calls) = 1
  /\ tried = <<>>

(***************************************************************************)
(* C12: a 2xx reply to the initial call that lacks message content is      *)
(* answered like a failed call: a terminal 500 response that carries       *)
(* latency, with no extraction, validation or regeneration.                *)
(***************************************************************************)
C12_MalformedLikeUnavailable ==
  [][InitialCallMalformed =>
       /\ pc' = "done"
       /\ Len(responses') = 1
       /\ responses'[1].status = 500
       /\ responses'[1].latency
       /\ Len(calls') = 1
       /\ tried' = <<>>
       /\ parsedJson' = JsUndefined
    ]_vars

\* the handler checks the request of a schema request and posts the chat
AugmentRuns == pc = "received" /\ SchemaRequest

(***************************************************************************)
(* C13: with a schema, when the messages hold a system message the         *)
(* sequence posted has the same length, each system message has the blank  *)
(* line and the instruction appended to its content and every other        *)
(* message is the original one; when they hold none, the sequence posted   *)
(* is one new system message with the instruction followed by the          *)
(* original messages in order.  The request's own messages stay as they    *)
(* were.                                                                   *)
(***************************************************************************)
C13_AugmentationShape ==
  [][AugmentRuns =>
       LET original == req.messages.list
           sent == calls'[Len(calls')].messages
           instruction == createJsonFormatSystemPrompt(schema)
       IN  /\ Len(calls') = 1
           /\ req' = req
           /\ IF \E i \in 1..Len(original) : original[i].role = "system"
              THEN /\ Len(sent) = Len(original)
                   /\ \A i \in 1..Len(original) :
                        IF original[i].role = "system"
                        THEN /\ sent[i].role = "system"
                             /\ sent[i].content =
                                  original[i].content \o <<"\n\n">> \o instruction
                        ELSE sent[i] = original[i]
              ELSE /\ Len(sent) = Len(original) + 1
                   /\ sent[1].role = "system"
                   /\ sent[1].content = instruction
                   /\ \A i \in 1..Len(original) : sent[i + 1] = original[i]
    ]_vars

\* a conversation with two system messages was posted, both with the instruction
C13_Witness ==
  /\ SchemaRequest
  /\ Len(calls) = 1
  /\ Len(req.messages.list) = 4
  /\ req.messages.list[4] = Message("system", <<"be kind">>)
  /\ calls[1].messages[4] = Message("system", <<"be kind", "\n\n", "INSTR">>)
  /\ calls[1].messages[2] = Message("system", <<"be brief", "\n\n", "INSTR">>)
  /\ calls[1].messages[3] = req.messages.list[3]

\* the handler resumes and reaches the transforms loop with current result r
TransformsRunOn(r) ==
  /\ req.transforms.given
  /\ \/ /\ pc = "chat" /\ reply.kind = "content" /\ reply.text # <<>>
        /\ IF wantsJson
           THEN LET e == extractJsonFromText(reply.text)
                IN  /\ e.ok
                    /\ ~(schema.given /\ ~validateAgainstSchema(e.val, schema))
                    /\ r = e.val
           ELSE r = JsText(reply.text)
     \/ /\ pc = "extract" /\ reply # Pending
        /\ r = generateJsonFromText(reply, schema)
        /\ validateAgainstSchema(r, schema)
     \/ /\ pc = "fix" /\ reply # Pending
        /\ r = generateJsonFromText(reply, schema)

\* the fields of the first filter of the request that has a field list
FirstFilterFields ==
  LET list == req.transforms.list
      first == CHOOSE i \in 1..Len(list) :
                 /\ list[i].type = "filter" /\ list[i].hasFields
                 /\ \A j \in 1..(i - 1) : ~(list[j].type = "filter" /\ list[j].hasFields)
  IN  list[first].fields

(***************************************************************************)
(* C14: a filter transform with field list F raises nothing and leaves an  *)
(* object whose keys are the members of F that are keys of the current     *)
(* result, each with its value, whatever the result is when the transforms *)
(* run: a parsed or regenerated JSON value of any kind, a fallback object  *)
(* or the raw model text.                                                  *)
(***************************************************************************)
C14_FilterNeverRaises ==
  [][\A r \in JsonValues \cup {JsText(reply.text)} :
       TransformsRunOn(r) =>
         LET applied == applyTransforms(r, <<Filter(FirstFilterFields)>>)
             filtered == applied.result
         IN  /\ pc' = "done"
             /\ responses'[Len(responses')].status = 200
             /\ ~applied.threw
             /\ filtered.kind = "object"
             /\ \A field \in Keys :
                  filtered.obj[field] =
                    IF field \in FirstFilterFields THEN r.obj[field] ELSE "absent"
    ]_vars

\* the handler resumes and hands document d to validateAgainstSchema (line 299)
ValidateRunsOn(d) ==
  /\ SchemaRequest
  /\ \/ /\ ExtractRuns
        /\ extractJsonFromText(reply.text).ok
        /\ d = extractJsonFromText(reply.text).val
     \/ /\ pc = "extract" /\ reply # Pending
        /\ d = generateJsonFromText(reply, schema)

\* the runtime type a declared type asks for
CheckedTypes == {"number", "string", "boolean", "array", "object"}

RuntimeTypeOf(type) ==
  CASE type = "number"  -> "num"
    [] type = "string"  -> "str"
    [] type = "boolean" -> "bool"
    [] type = "array"   -> "arr"
    [] type = "object"  -> "obj"

\* (a) every required key is a key of d
HasRequiredKeys(d, s) == \A key \in s.required : d.obj[key] # "absent"

\* (b) every key of d with a sub-schema of a checked type holds that type
HasDeclaredTypes(d, s) ==
  \A key \in Keys :
     (/\ d.obj[key] # "absent"
      /\ s.hasProps /\ s.props[key].present
      /\ s.props[key].type \in CheckedTypes)
     => d.obj[key] = RuntimeTypeOf(s.props[key].type)

ExtractionFailedOutward ==
  /\ pc' = "done"
  /\ Len(responses') = 1
  /\ \/ responses'[1].status = 400
     \/ responses'[1].warning

(***************************************************************************)
(* C16: extractJsonFromText raises to the handler only when no schema was  *)
(* supplied and direct, fenced and brace-span parse all failed; the        *)
(* handler then answers 400 with the raw model text as originalResponse.   *)
(* With a schema it never raises, whatever the regeneration call does.     *)
(***************************************************************************)
C16_ExtractionFailsOnlyWithoutSchema ==
  [][/\ ExtractRuns =>
          /\ ExtractionFailedOutward
                <=> (~schema.given /\ LocalStrategiesFail(reply.text))
          /\ ExtractionFailedOutward =>
                /\ responses' = <<ParseFailed(JsText(reply.text))>>
                /\ responses'[1].originalResponse.raw = reply.text
                /\ calls' = calls
     /\ (pc \in {"extract", "fix"} /\ reply # Pending) =>
          /\ schema.given
          /\ ~ExtractionFailedOutward
    ]_vars

C16_Witness ==
  /\ Done
  /\ ValidRequest
  /\ wantsJson
  /\ ~schema.given
  /\ tried = <<"direct", "fenced", "brace">>
  /\ Len(calls) = 1
  /\ Response.status = 400
  /\ Response.originalResponse.raw # <<>>

(***************************************************************************)
(* C17: a request posts at most two calls to the completion service, the   *)
(* chat and at most one regeneration.                                      *)
(***************************************************************************)
C17_AtMostTwoCalls ==
  /\ Len(calls) <= 2
  /\ Cardinality(TransformCalls) <= 1

\* a valid request whose response_format is absent or of another type
PlainRequest == ValidRequest /\ ~wantsJson

(***************************************************************************)
(* C18: without a response_format of type json_schema the messages are     *)
(* posted as they came, no extraction, validation or regeneration runs,    *)
(* one call is made in all, and without transforms the result of the       *)
(* success response is the model text as it was returned.                  *)
(***************************************************************************)
C18_PlainRequestPassesThrough ==
  [][PlainRequest =>
       /\ Len(calls') <= 1
       /\ pc' \in {"chat", "done"}
       /\ tried' = <<>> /\ made' = "nothing" /\ parsedJson' = JsUndefined
       /\ pc = "received" =>
            calls' = <<[purpose |-> "chat", messages |-> req.messages.list]>>
       /\ (pc = "chat" /\ reply.kind = "content" /\ reply.text # <<>>) =>
            /\ pc' = "done"
            /\ Len(calls') = 1
            /\ ~req.transforms.given =>
                 /\ responses' = <<Success(JsText(reply.text))>>
                 /\ responses'[1].result.raw = reply.text
    ]_vars

\* a text that is a JSON document came back as text, after the one call
\* that carried the conversation with its system messages untouched
C18_Witness ==
  /\ Succeeded
  /\ PlainRequest
  /\ hasSystemMessage(req.messages.list)
  /\ calls = <<[purpose |-> "chat", messages |-> req.messages.list]>>
  /\ Response.result.kind = "string"
  /\ Response.result.raw = <<"{a}">>

\* the own keys of a document
KeysOf(d) ==
  {key \in Keys : d.obj[key] # "absent"}
     \cup (IF d = ErrorObject THEN {"error"} ELSE {})

\* each required key has a property sub-schema, its description a text if given
RequiredKeysDescribed(s) ==
  \A key \in s.required :
     /\ s.hasProps
     /\ s.props[key].present
     /\ s.props[key].desc \in {"none", "text"}

C20_OneResponseInTheEnd ==
  /\ [](/\ Len(responses) <= 1
        /\ Done <=> Len(responses) = 1)
  /\ <>[](/\ Done
          /\ Len(responses) = 1
          /\ Response.status \in {200, 400, 500})

\* the longest path, three calls, ended with its one response
C20_Witness ==
  /\ Done
  /\ Len(calls) = 3
  /\ Len(responses) = 1
  /\ Response.status = 200

====
